---------------------------- MODULE Spec2Model ----------------------------
(***************************************************************************)
(* Model of the risk-classification-and-recommendation pipeline of the     *)
(* Conecta+Saude backend: ClassificationStrategy / ClassificationService   *)
(* (app/services/classification_service.py), RecommendationBuilder /       *)
(* LLMService (app/services/llm_service.py) and PatientService             *)
(* (app/services/patient_service.py).                                      *)
(*                                                                         *)
(* Number representation.  nivel_glicose is a float in the source; the     *)
(* model keeps it in tenths of mg/dL (140.5 mg/dL is 1405), and every      *)
(* threshold the code compares it with is multiplied by GlucoseScale.      *)
(* Confidences are floats in [0, 1]; the model keeps them in units of      *)
(* 1/10000 (0.85 is 8500), in which base * k / 4 is exact.  IEEE rounding  *)
(* of these products is not modelled.                                      *)
(*                                                                         *)
(* A recommendation text is modelled as the sequence of its lines (the     *)
(* code joins the lines with "\n" and no line contains a newline); a line  *)
(* is a record of its leading number (0: the line carries no number), the  *)
(* builder section that wrote it, the wording variant and the hours/days   *)
(* value printed in it (0: none).                                          *)
(***************************************************************************)
EXTENDS Integers, Sequences, FiniteSets, TLC

VARIABLES
    classification_url, \* settings.CLASSIFICATION_SERVICE_URL is set (process-wide)
    model,              \* LLMService.model is not None (a narrative delegate is configured)
    faults,             \* injected faults of the collaborators (empty in the program as shipped)
    pc,                 \* per analysis: position of analyze_patient
    patient,            \* per analysis: the validated snapshot (PatientData)
    classification,     \* per analysis: ClassificationResult, or None
    recommendation,     \* per analysis: RecommendationData, or None
    response,           \* per analysis: PatientAnalysisResponse, or None
    error,              \* per analysis: the exception that escaped analyze_patient
    remote_outcome,     \* per analysis: how the remote classifier answered (history)
    llm_outcome,        \* per analysis: how the narrative delegate answered (history)
    calls,              \* per analysis: how often each collaborator was invoked (history)
    raised,             \* per analysis: the exception classify raised, and its cause (history)
    call                \* the last direct application of a pure function (unit harness)

vars == <<classification_url, model, faults, pc, patient, classification,
          recommendation, response, error, remote_outcome, llm_outcome, calls, raised,
          call>>

(***************************************************************************)
(* Bounds and representation constants.                                    *)
(***************************************************************************)
\* Input values are drawn around every threshold T of the code: T+1-Margin .. T+Margin.
Margin == 1

\* nivel_glicose is kept in tenths of mg/dL.
GlucoseScale == 10

\* Python's None: for an Optional enum or string, and for an Optional number.
None == "None"
NoneNum == -1

\* The narrative delegate's raw answer has at most this many lines.
MaxNarrativeLines == 2

(***************************************************************************)
(* app/models/patient.py                                                   *)
(***************************************************************************)
LOW == "low"
MEDIUM == "medium"
HIGH == "high"
CRITICAL == "critical"

RiskLevel == {LOW, MEDIUM, HIGH, CRITICAL}

PatientDataInputValid_no_pressure_check(p) ==
    /\ p.idade >= 0 /\ p.idade <= 120
    /\ p.nivel_glicose >= 0 /\ p.nivel_glicose <= 800 * GlucoseScale
    /\ p.pressao_sistolica >= 60 /\ p.pressao_sistolica <= 300
    /\ p.pressao_diastolica >= 40 /\ p.pressao_diastolica <= 200

\* PatientDataInput: field ranges, validate_glucose_level, validate_blood_pressure.
PatientDataInputValid(p) ==
    /\ p.idade >= 0 /\ p.idade <= 120
    /\ p.nivel_glicose >= 0 /\ p.nivel_glicose <= 1000 * GlucoseScale
    /\ p.pressao_sistolica >= 60 /\ p.pressao_sistolica <= 300
    /\ p.pressao_diastolica >= 40 /\ p.pressao_diastolica <= 200
    /\ p.historico_familiar \in BOOLEAN
    /\ ~(p.nivel_glicose < 0)
    /\ ~(p.nivel_glicose > 800 * GlucoseScale)
    /\ ~(p.pressao_sistolica <= p.pressao_diastolica)

(***************************************************************************)
(* Input sets.                                                             *)
(***************************************************************************)
Around(T) == (T + 1 - Margin)..(T + Margin)

Idades == {30} \cup Around(65) \cup Around(70) \cup Around(80)
Glicoses ==
    {900, 1405, 2800} \cup Around(126 * GlucoseScale) \cup Around(140 * GlucoseScale)
        \cup Around(200 * GlucoseScale) \cup Around(300 * GlucoseScale)
Sistolicas == {110, 130} \cup Around(140) \cup Around(160) \cup Around(180)
Diastolicas == {70, 85, 95} \cup Around(90) \cup Around(100) \cup Around(110)

\* Every validated snapshot over the boundary values (the unit harness draws from it).
Snapshots ==
    {p \in [idade : Idades, nivel_glicose : Glicoses, pressao_sistolica : Sistolicas,
            pressao_diastolica : Diastolicas, historico_familiar : BOOLEAN] :
        PatientDataInputValid(p)}

\* The snapshots the analyses run on: the documented examples and one value per tier.
PipelineSnapshots ==
    {p \in [idade : {30, 65, 81}, nivel_glicose : {900, 1405, 2800, 3010},
            pressao_sistolica : {110, 130, 160, 181},
            pressao_diastolica : {70, 85, 95, 111}, historico_familiar : BOOLEAN] :
        PatientDataInputValid(p)}

(***************************************************************************)
(* ClassificationStrategy (app/services/classification_service.py)         *)
(***************************************************************************)
Count(conds) == Cardinality({i \in DOMAIN conds : conds[i]})

\* sum([...]) of the five high-risk conditions.
critical_conditions(patient_data) ==
    LET idade == patient_data.idade
        glicose == patient_data.nivel_glicose
        sistolica == patient_data.pressao_sistolica
        diastolica == patient_data.pressao_diastolica
    IN  Count(<<glicose > 200 * GlucoseScale,
                sistolica > 160,
                diastolica > 100,
                idade > 70 /\ glicose > 140 * GlucoseScale,
                idade > 80>>)

calculate_risk_level_ge160(patient_data) ==
    LET idade == patient_data.idade
        glicose == patient_data.nivel_glicose
        sistolica == patient_data.pressao_sistolica
        diastolica == patient_data.pressao_diastolica
        historico == patient_data.historico_familiar
        n == Count(<<glicose > 200 * GlucoseScale, sistolica >= 160, diastolica > 100,
                     idade > 70 /\ glicose > 140 * GlucoseScale, idade > 80>>)
    IN  IF glicose > 300 * GlucoseScale \/ sistolica > 180 \/ diastolica > 110
        THEN CRITICAL
        ELSE IF n >= 2 THEN HIGH
        ELSE IF n = 1 \/ (historico /\ (glicose > 126 * GlucoseScale \/ sistolica > 140))
        THEN MEDIUM
        ELSE LOW

calculate_risk_level_exactly_two(patient_data) ==
    LET glicose == patient_data.nivel_glicose
        sistolica == patient_data.pressao_sistolica
        diastolica == patient_data.pressao_diastolica
        historico == patient_data.historico_familiar
    IN  IF glicose > 300 * GlucoseScale \/ sistolica > 180 \/ diastolica > 110
        THEN CRITICAL
        ELSE IF critical_conditions(patient_data) = 2 THEN HIGH
        ELSE IF critical_conditions(patient_data) = 1
                \/ (historico /\ (glicose > 126 * GlucoseScale \/ sistolica > 140))
        THEN MEDIUM
        ELSE LOW

calculate_risk_level(patient_data) ==
    LET glicose == patient_data.nivel_glicose
        sistolica == patient_data.pressao_sistolica
        diastolica == patient_data.pressao_diastolica
        historico == patient_data.historico_familiar
    IN  IF glicose > 300 * GlucoseScale \/ sistolica > 180 \/ diastolica > 110
        THEN CRITICAL
        ELSE IF critical_conditions(patient_data) >= 2 THEN HIGH
        ELSE IF critical_conditions(patient_data) = 1
                \/ (historico /\ (glicose > 126 * GlucoseScale \/ sistolica > 140))
        THEN MEDIUM
        ELSE LOW

is_outlier_high_only(risk_level) == risk_level = HIGH

is_outlier(risk_level) == risk_level \in {HIGH, CRITICAL}

base_confidence(risk_level) ==
    CASE risk_level = CRITICAL -> 9500
      [] risk_level = HIGH -> 8500
      [] risk_level = MEDIUM -> 7500
      [] risk_level = LOW -> 7000

required_fields == {"idade", "nivel_glicose", "pressao_sistolica", "pressao_diastolica"}

Min(a, b) == IF a <= b THEN a ELSE b

calculate_confidence_no_completeness(risk_level, patient_data) ==
    Min(base_confidence(risk_level), 9900)

\* patient_data maps every key to a value or to None (None also stands for an absent
\* key: dict.get returns None for both).
calculate_confidence(risk_level, patient_data) ==
    LET present == Cardinality({f \in required_fields : patient_data[f] # NoneNum})
    IN  Min((base_confidence(risk_level) * present) \div Cardinality(required_fields), 9900)


(***************************************************************************)
(* RecommendationBuilder (app/services/llm_service.py)                     *)
(***************************************************************************)
Line(num, section, variant, value) ==
    [num |-> num, section |-> section, variant |-> variant, value |-> value]

\* RecommendationBuilder.__init__
NewBuilder == [recommendations |-> <<>>, priority |-> "normal"]

add_urgent_contact(b, hours) ==
    [recommendations |-> Append(b.recommendations,
                                Line(1, "urgent_contact", "URGENTE: Contatar paciente", hours)),
     priority |-> "urgent"]

add_medical_appointment(b, urgency) ==
    [b EXCEPT !.recommendations =
        Append(@, Line(2, "medical_appointment", urgency, 0))]

add_glucose_monitoring_lower_tier_at_gate(b, level) ==
    IF level > 300 * GlucoseScale
    THEN [b EXCEPT !.recommendations = @ \o
            <<Line(3, "glucose_monitoring", "URGENTE: Glicemia capilar de 2/2h", 0),
              Line(4, "glucose_monitoring", "Solicitar IMEDIATO: HbA1c", 0),
              Line(5, "glucose_monitoring", "Encaminhamento IMEDIATO endocrinologista", 0)>>]
    ELSE IF level > 140 * GlucoseScale
    THEN [b EXCEPT !.recommendations = @ \o
            <<Line(3, "glucose_monitoring", "Solicitar: HbA1c, jejum e pos-prandial", 0),
              Line(4, "glucose_monitoring", "Encaminhar endocrinologista em 7 dias", 0)>>]
    ELSE b

add_glucose_monitoring_top_tier_at_350(b, level) ==
    IF level > 350 * GlucoseScale
    THEN [b EXCEPT !.recommendations = @ \o
            <<Line(3, "glucose_monitoring", "URGENTE: Glicemia capilar de 2/2h", 0),
              Line(4, "glucose_monitoring", "Solicitar IMEDIATO: HbA1c", 0),
              Line(5, "glucose_monitoring", "Encaminhamento IMEDIATO endocrinologista", 0)>>]
    ELSE IF level > 200 * GlucoseScale
    THEN [b EXCEPT !.recommendations = @ \o
            <<Line(3, "glucose_monitoring", "Solicitar: HbA1c, jejum e pos-prandial", 0),
              Line(4, "glucose_monitoring", "Encaminhar endocrinologista em 7 dias", 0)>>]
    ELSE b

add_glucose_monitoring(b, level) ==
    IF level > 300 * GlucoseScale
    THEN [b EXCEPT !.recommendations = @ \o
            <<Line(3, "glucose_monitoring", "URGENTE: Glicemia capilar de 2/2h", 0),
              Line(4, "glucose_monitoring", "Solicitar IMEDIATO: HbA1c", 0),
              Line(5, "glucose_monitoring", "Encaminhamento IMEDIATO endocrinologista", 0)>>]
    ELSE IF level > 200 * GlucoseScale
    THEN [b EXCEPT !.recommendations = @ \o
            <<Line(3, "glucose_monitoring", "Solicitar: HbA1c, jejum e pos-prandial", 0),
              Line(4, "glucose_monitoring", "Encaminhar endocrinologista em 7 dias", 0)>>]
    ELSE b

add_pressure_monitoring_lower_tier_at_gate(b, systolic, diastolic) ==
    IF systolic > 180 \/ diastolic > 110
    THEN [b EXCEPT !.recommendations = @ \o
            <<Line(3, "pressure_monitoring", "Monitoramento de 2/2h", 0),
              Line(4, "pressure_monitoring", "Reavaliacao URGENTE da medicacao", 0),
              Line(5, "pressure_monitoring", "Sinais de crise hipertensiva", 0)>>]
    ELSE IF systolic > 140 \/ diastolic > 90
    THEN [b EXCEPT !.recommendations = @ \o
            <<Line(3, "pressure_monitoring", "Monitoramento diario", 0),
              Line(4, "pressure_monitoring", "Revisar medicacao", 0)>>]
    ELSE b

add_pressure_monitoring(b, systolic, diastolic) ==
    IF systolic > 180 \/ diastolic > 110
    THEN [b EXCEPT !.recommendations = @ \o
            <<Line(3, "pressure_monitoring", "Monitoramento de 2/2h", 0),
              Line(4, "pressure_monitoring", "Reavaliacao URGENTE da medicacao", 0),
              Line(5, "pressure_monitoring", "Sinais de crise hipertensiva", 0)>>]
    ELSE IF systolic > 160 \/ diastolic > 100
    THEN [b EXCEPT !.recommendations = @ \o
            <<Line(3, "pressure_monitoring", "Monitoramento diario", 0),
              Line(4, "pressure_monitoring", "Revisar medicacao", 0)>>]
    ELSE b

add_elderly_care(b, age) ==
    IF age > 80
    THEN [b EXCEPT !.recommendations =
            Append(@, Line(6, "elderly_care", "Acompanhamento geriatrico URGENTE", 0))]
    ELSE IF age > 65
    THEN [b EXCEPT !.recommendations =
            Append(@, Line(6, "elderly_care", "Acompanhamento geriatrico especializado", 0))]
    ELSE b

add_family_guidance(b, has_family_history) ==
    IF has_family_history
    THEN [b EXCEPT !.recommendations =
            Append(@, Line(7, "family_guidance", "Orientar familia", 0))]
    ELSE b

add_lifestyle_guidance(b, risk_level) ==
    IF risk_level = CRITICAL
    THEN [b EXCEPT !.recommendations =
            Append(@, Line(8, "lifestyle_guidance", "Orientacao nutricional URGENTE", 0))]
    ELSE [b EXCEPT !.recommendations =
            Append(@, Line(8, "lifestyle_guidance", "Habitos alimentares e exercicios", 0))]

add_followup(b, days) ==
    [b EXCEPT !.recommendations =
        Append(@, Line(9, "followup", "Retorno obrigatorio", days))]

build_newest_first(b) ==
    [i \in 1..Len(b.recommendations) |->
        b.recommendations[Len(b.recommendations) + 1 - i]]

\* "\n".join(self.recommendations): the text as the sequence of its lines.
build(b) == b.recommendations

get_priority(b) == b.priority

(***************************************************************************)
(* LLMService (app/services/llm_service.py)                                *)
(***************************************************************************)
\* followup_days.get(classification.risk_level, 15)
followup_days(risk_level) ==
    CASE risk_level = CRITICAL -> 3
      [] risk_level = HIGH -> 7
      [] risk_level = MEDIUM -> 15
      [] risk_level = LOW -> 30
      [] OTHER -> 15

local_recommendation_builder(patient_data, c) ==
    LET idade == patient_data.idade
        glicose == patient_data.nivel_glicose
        sistolica == patient_data.pressao_sistolica
        diastolica == patient_data.pressao_diastolica
        historico == patient_data.historico_familiar
        b0 == NewBuilder
        b1 == IF c.risk_level = CRITICAL THEN add_urgent_contact(b0, 2)
              ELSE IF c.risk_level = HIGH THEN add_urgent_contact(b0, 12)
              ELSE add_urgent_contact(b0, 24)
        b2 == add_medical_appointment(b1, IF c.is_outlier THEN "urgencia" ELSE "rotina")
        b3 == IF glicose > 140 * GlucoseScale THEN add_glucose_monitoring(b2, glicose) ELSE b2
        b4 == IF sistolica > 140 \/ diastolica > 90
              THEN add_pressure_monitoring(b3, sistolica, diastolica) ELSE b3
        b5 == IF idade > 65 THEN add_elderly_care(b4, idade) ELSE b4
        b6 == add_family_guidance(b5, historico)
        b7 == add_lifestyle_guidance(b6, c.risk_level)
    IN  add_followup(b7, followup_days(c.risk_level))

generate_local_recommendation_no_followup(patient_data, c) ==
    LET b == local_recommendation_builder(patient_data, c)
    IN  SubSeq(b.recommendations, 1, Len(b.recommendations) - 1)

generate_local_recommendation(patient_data, c) ==
    build(local_recommendation_builder(patient_data, c))

\* _generate_basic_recommendation: three fixed lines.
generate_basic_recommendation ==
    <<Line(1, "basic_contact", "Contatar paciente para agendamento", 0),
      Line(2, "basic_appointment", "Agendar consulta medica", 0),
      Line(3, "basic_followup", "Orientar sobre acompanhamento regular", 0)>>

\* priority_map.get(risk_level, "normal")
determine_priority(risk_level) ==
    CASE risk_level = CRITICAL -> "critical"
      [] risk_level = HIGH -> "urgent"
      [] risk_level = MEDIUM -> "high"
      [] risk_level = LOW -> "normal"
      [] OTHER -> "normal"

RecommendationData(content, priority, generated_by) ==
    [content |-> content, priority |-> priority, generated_by |-> generated_by]

\* The except branch of generate_recommendation.
basic_fallback ==
    RecommendationData(generate_basic_recommendation, "normal", "fallback")

\* The except branch of PatientService._generate_recommendation: one line, no number.
service_fallback ==
    RecommendationData(
        <<Line(0, "service_fallback", "Agendar consulta medica para avaliacao detalhada", 0)>>,
        "normal", "fallback")


(***************************************************************************)
(* The remote classifier's answers (httpx) and their mapping.              *)
(***************************************************************************)
\* What client.post / raise_for_status / response.json can end in, besides a parsed body:
\* httpx.TimeoutException, httpx.RequestError, httpx.HTTPStatusError (a non-2xx
\* status), or a body that is no JSON.
RemoteFailures == {"timeout", "request_error", "http_status_error", "invalid_json"}

Unavailable_no_status == {"timeout", "request_error"}

\* The failures _external_classification turns into an ExternalServiceException, which
\* classify catches (line 99).
Unavailable == {"timeout", "request_error", "http_status_error"}

\* A 2xx body as parsed JSON: each key is absent ("missing"), null or a JSON value,
\* kept as the text of that value.
RemotePayloads ==
    { [is_outlier |-> "true",    confidence |-> "0.9",     risk_level |-> "high"],
      [is_outlier |-> "true",    confidence |-> "0.9",     risk_level |-> "critical"],
      [is_outlier |-> "false",   confidence |-> "0.9",     risk_level |-> "low"],
      [is_outlier |-> "true",    confidence |-> "0.9",     risk_level |-> "low"],
      [is_outlier |-> "false",   confidence |-> "0.9",     risk_level |-> "high"],
      [is_outlier |-> "missing", confidence |-> "missing", risk_level |-> "missing"],
      [is_outlier |-> "missing", confidence |-> "0.9",     risk_level |-> "critical"],
      [is_outlier |-> "true",    confidence |-> "null",    risk_level |-> "null"],
      [is_outlier |-> "true",    confidence |-> "1.5",     risk_level |-> "high"],
      [is_outlier |-> "true",    confidence |-> "0.9",     risk_level |-> "severe"],
      [is_outlier |-> "null",    confidence |-> "0.9",     risk_level |-> "high"] }

RemoteAnswers ==
    {[kind |-> k, payload |-> [is_outlier |-> "missing", confidence |-> "missing",
                               risk_level |-> "missing"]] :
        k \in RemoteFailures}
    \cup {[kind |-> "ok", payload |-> p] : p \in RemotePayloads}

NoAnswer ==
    [kind |-> "none", payload |-> [is_outlier |-> "missing", confidence |-> "missing",
                                   risk_level |-> "missing"]]

\* The JSON number of a payload, in units of 1/10000.
JsonNumber(text) ==
    CASE text = "0.9" -> 9000
      [] text = "1.5" -> 15000
      [] text = "null" -> NoneNum

payload_fields_default_low(data) ==
    [is_outlier |-> IF data.is_outlier = "missing" THEN "false" ELSE data.is_outlier,
     confidence |-> IF data.confidence = "missing" THEN 5000 ELSE JsonNumber(data.confidence),
     risk_level |-> IF data.risk_level \in {"missing", "null"} THEN LOW ELSE data.risk_level]

\* data.get("is_outlier", False), data.get("confidence", 0.5),
\* data.get("risk_level", RiskLevel.MEDIUM): the keyword arguments of ClassificationResult.
payload_fields(data) ==
    [is_outlier |-> IF data.is_outlier = "missing" THEN "false" ELSE data.is_outlier,
     confidence |-> IF data.confidence = "missing" THEN 5000 ELSE JsonNumber(data.confidence),
     risk_level |-> IF data.risk_level = "missing" THEN MEDIUM
                    ELSE IF data.risk_level = "null" THEN None ELSE data.risk_level]

\* ClassificationResult(...) accepts the keyword arguments (pydantic validation).
payload_maps(data) ==
    LET f == payload_fields(data)
    IN  /\ f.is_outlier \in {"true", "false"}
        /\ (f.confidence = NoneNum \/ (f.confidence >= 0 /\ f.confidence <= 10000))
        /\ (f.risk_level = None \/ f.risk_level \in RiskLevel)

ClassificationResult(outlier, confidence, risk_level) ==
    [is_outlier |-> outlier, confidence |-> confidence, risk_level |-> risk_level]

\* The ClassificationResult built from a 2xx payload that maps.
external_result(data) ==
    LET f == payload_fields(data)
    IN  ClassificationResult(f.is_outlier = "true", f.confidence, f.risk_level)

\* ClassificationService._local_classification
local_classification(patient_data) ==
    LET risk_level == calculate_risk_level(patient_data)
    IN  ClassificationResult(is_outlier(risk_level),
                             calculate_confidence(risk_level, patient_data),
                             risk_level)

(***************************************************************************)
(* The narrative delegate's answers.                                       *)
(***************************************************************************)
NarrativeLines ==
    { Line(0, "blank", "", 0),
      Line(0, "narrative", "prose", 0),
      Line(1, "urgent_contact", "narrative", 2),
      Line(9, "followup", "narrative", 7) }

SeqsUpTo(S, n) == UNION {[1..k -> S] : k \in 0..n}

\* response.text of a successful generation.
NarrativeTexts == SeqsUpTo(NarrativeLines, MaxNarrativeLines)

IsBlank(line) == line.section = "blank"

\* str.strip() on a text: leading and trailing blank lines go.
RECURSIVE lstrip(_)
lstrip(text) ==
    IF text # <<>> /\ IsBlank(Head(text)) THEN lstrip(Tail(text)) ELSE text

RECURSIVE rstrip(_)
rstrip(text) ==
    IF text # <<>> /\ IsBlank(text[Len(text)])
    THEN rstrip(SubSeq(text, 1, Len(text) - 1)) ELSE text

strip(text) == rstrip(lstrip(text))

LLMAnswers ==
    {[kind |-> k, text |-> <<>>] : k \in {"timeout", "error"}}
    \cup {[kind |-> "ok", text |-> x] : x \in NarrativeTexts}

NoLLMAnswer == [kind |-> "none", text |-> <<>>]

(***************************************************************************)
(* State of one analysis.                                                  *)
(***************************************************************************)
NoClassification == ClassificationResult(FALSE, NoneNum, "unset")
NoRecommendation == RecommendationData(<<>>, "unset", "unset")

PatientAnalysisResponse(patient_data, c, r) ==
    [patient_data |-> patient_data, classification |-> c, recommendation |-> r]

NoPatient ==
    [idade |-> NoneNum, nivel_glicose |-> NoneNum, pressao_sistolica |-> NoneNum,
     pressao_diastolica |-> NoneNum, historico_familiar |-> FALSE]

NoResponse == PatientAnalysisResponse(NoPatient, NoClassification, NoRecommendation)

NoCalls == [remote |-> 0, local |-> 0, recommendation |-> 0, llm |-> 0, assembler |-> 0]

\* An exception on its way out: the type first thrown, the type that left classify, and
\* details["original_error"] of the exception that left analyze_patient.
RaisedException(origin, classify, details) ==
    [origin |-> origin, classify |-> classify, original_error |-> details]

NoRaise == RaisedException(None, None, None)

\* The faults a collaborator can be made to have: the local rule engine throws, the
\* local assembler throws, the injected ILLMService throws.
FaultKinds == {"local_engine", "assembler", "orchestrator"}

Tasks == DOMAIN pc


(***************************************************************************)
(* PatientService.analyze_patient, one action per stretch between awaits.  *)
(***************************************************************************)
Bump(c, key) == [c EXCEPT ![key] = @ + 1]

\* analyze_patient, lines 116-131: a ConectaSaudeException is re-raised as it is, any
\* other exception leaves as a ConectaSaudeException that records it.
Escapes_unwrapped(exception) == exception

Escapes(exception) ==
    IF exception \in {"ClassificationServiceException", "ConectaSaudeException"}
    THEN exception
    ELSE "ConectaSaudeException"

\* details["original_error"] of what leaves analyze_patient: a
\* ClassificationServiceException keeps the details classify gave it (line 106, the
\* exception classify caught), any other exception is recorded by line 130.
original_error(exception, cause) ==
    IF exception = "ClassificationServiceException" THEN cause ELSE exception

LocalClassification_after_retry(t) ==
    IF classification_url /\ calls[t].remote < 2
    THEN /\ pc' = [pc EXCEPT ![t] = "await_remote"]
         /\ calls' = [calls EXCEPT ![t] = Bump(@, "remote")]
         /\ UNCHANGED <<classification, error, raised>>
    ELSE /\ calls' = [calls EXCEPT ![t] = Bump(@, "local")]
         /\ pc' = [pc EXCEPT ![t] = "classified"]
         /\ classification' = [classification EXCEPT ![t] = local_classification(patient[t])]
         /\ UNCHANGED <<error, raised>>

\* classify ends in _local_classification (no endpoint, or the fallback of line 101):
\* its result is the classification, and an exception of the rule engine leaves
\* classify as it is.
LocalClassification(t) ==
    /\ calls' = [calls EXCEPT ![t] = Bump(@, "local")]
    /\ IF "local_engine" \in faults
       THEN /\ pc' = [pc EXCEPT ![t] = "failed"]
            /\ error' = [error EXCEPT ![t] = Escapes("Exception")]
            /\ raised' = [raised EXCEPT ![t] =
                    RaisedException("Exception", "Exception",
                                    original_error("Exception", "Exception"))]
            /\ UNCHANGED classification
       ELSE /\ pc' = [pc EXCEPT ![t] = "classified"]
            /\ classification' = [classification EXCEPT ![t] = local_classification(patient[t])]
            /\ UNCHANGED <<error, raised>>

\* classify, lines 102-107: an exception of the remote path that is none of the two
\* caught kinds becomes a ClassificationServiceException.
ClassifyFails(t, cause) ==
    /\ pc' = [pc EXCEPT ![t] = "failed"]
    /\ error' = [error EXCEPT ![t] = Escapes("ClassificationServiceException")]
    /\ raised' = [raised EXCEPT ![t] =
            RaisedException(cause, "ClassificationServiceException",
                            original_error("ClassificationServiceException", cause))]
    /\ UNCHANGED <<classification, calls>>

Classify_always_remote(t) ==
    /\ pc[t] = "start"
    /\ pc' = [pc EXCEPT ![t] = "await_remote"]
    /\ calls' = [calls EXCEPT ![t] = Bump(@, "remote")]
    /\ UNCHANGED <<classification, error, raised>>
    /\ UNCHANGED <<classification_url, model, faults, patient, recommendation, response,
                   remote_outcome, llm_outcome, call>>

\* analyze_patient up to the first await of classify: without an endpoint the local
\* classification, with one the request to it.
Classify(t) ==
    /\ pc[t] = "start"
    /\ IF ~classification_url
       THEN LocalClassification(t)
       ELSE /\ pc' = [pc EXCEPT ![t] = "await_remote"]
            /\ calls' = [calls EXCEPT ![t] = Bump(@, "remote")]
            /\ UNCHANGED <<classification, error, raised>>
    /\ UNCHANGED <<classification_url, model, faults, patient, recommendation, response,
                   remote_outcome, llm_outcome, call>>

\* _external_classification from the answer of the endpoint on, and what classify makes
\* of it.
RemoteReturnsWith(t, answer) ==
    /\ pc[t] = "await_remote"
    /\ remote_outcome' = [remote_outcome EXCEPT ![t] = answer]
    /\ IF answer.kind \in Unavailable
       THEN LocalClassification(t)
       ELSE IF answer.kind = "ok" /\ payload_maps(answer.payload)
       THEN /\ pc' = [pc EXCEPT ![t] = "classified"]
            /\ classification' = [classification EXCEPT ![t] = external_result(answer.payload)]
            /\ UNCHANGED <<error, calls, raised>>
       ELSE ClassifyFails(t, IF answer.kind = "invalid_json" THEN "JSONDecodeError"
                             ELSE "ValidationError")
    /\ UNCHANGED <<classification_url, model, faults, patient, recommendation, response,
                   llm_outcome, call>>

RemoteReturns(t) == \E answer \in RemoteAnswers : RemoteReturnsWith(t, answer)

\* _generate_recommendation, line 163: only an outlier gets a recommendation.
needs_recommendation_or_medium(c) == c.is_outlier \/ c.risk_level = MEDIUM

needs_recommendation(c) == c.is_outlier

Recommended_shared_builder(t, data, keys) ==
    LET earlier == {u \in Tasks : u # t /\ recommendation[u].generated_by = "local_rules"}
        lines == IF data.generated_by = "local_rules" /\ earlier # {}
                 THEN recommendation[CHOOSE u \in earlier : TRUE].content \o data.content
                 ELSE data.content
    IN  /\ pc' = [pc EXCEPT ![t] = "assemble"]
        /\ recommendation' = [recommendation EXCEPT ![t] = [data EXCEPT !.content = lines]]
        /\ calls' = [calls EXCEPT ![t] =
                [k \in DOMAIN @ |-> IF k \in keys THEN @[k] + 1 ELSE @[k]]]
        /\ UNCHANGED error

\* _generate_recommendation returns what it has (None, or the orchestrator's data).
Recommended(t, data, keys) ==
    /\ pc' = [pc EXCEPT ![t] = "assemble"]
    /\ recommendation' = [recommendation EXCEPT ![t] = data]
    /\ calls' = [calls EXCEPT ![t] = [k \in DOMAIN @ |-> IF k \in keys THEN @[k] + 1 ELSE @[k]]]
    /\ UNCHANGED error

ServiceFallback_reraise(t) ==
    /\ pc' = [pc EXCEPT ![t] = "failed"]
    /\ error' = [error EXCEPT ![t] = Escapes("Exception")]
    /\ calls' = [calls EXCEPT ![t] = Bump(@, "recommendation")]
    /\ UNCHANGED recommendation

\* _generate_recommendation, lines 196-209: an exception of the orchestrator is caught
\* and a one-line recommendation returned.
ServiceFallback(t) == Recommended(t, service_fallback, {"recommendation"})

\* generate_recommendation without a delegate (lines 177-182) and its except branch
\* (lines 193-201).
local_rules_recommendation(patient_data, c) ==
    IF "assembler" \in faults
    THEN basic_fallback
    ELSE RecommendationData(generate_local_recommendation(patient_data, c),
                            determine_priority(c.risk_level), "local_rules")

\* _generate_recommendation up to the await of the delegate, or to its end.
GenerateRecommendation(t) ==
    /\ pc[t] = "classified"
    /\ IF ~needs_recommendation(classification[t])
       THEN Recommended(t, recommendation[t], {})
       ELSE IF "orchestrator" \in faults
       THEN ServiceFallback(t)
       ELSE IF model /\ classification[t].is_outlier
       THEN IF classification[t].confidence = NoneNum
            THEN \* build_medical_prompt cannot format a None confidence
                 Recommended(t, basic_fallback, {"recommendation"})
            ELSE /\ pc' = [pc EXCEPT ![t] = "await_llm"]
                 /\ calls' = [calls EXCEPT ![t] = Bump(Bump(@, "recommendation"), "llm")]
                 /\ UNCHANGED <<recommendation, error>>
       ELSE Recommended(t, local_rules_recommendation(patient[t], classification[t]),
                        {"recommendation", "assembler"})
    /\ UNCHANGED <<classification_url, model, faults, patient, classification, response,
                   remote_outcome, llm_outcome, raised, call>>

narrative_recommendation_always_tagged_llm(answer, c) ==
    IF answer.kind = "ok"
    THEN RecommendationData(strip(answer.text), determine_priority(c.risk_level),
                            "gemini_llm")
    ELSE RecommendationData(generate_basic_recommendation, "normal", "gemini_llm")

\* generate_recommendation from the answer of the delegate on (lines 172-176, 186-201).
narrative_recommendation(answer, c) ==
    IF answer.kind = "ok"
    THEN RecommendationData(strip(answer.text), determine_priority(c.risk_level),
                            "gemini_llm")
    ELSE basic_fallback

LLMReturnsWith_retry_on_failure(t, answer) ==
    /\ pc[t] = "await_llm"
    /\ llm_outcome' = [llm_outcome EXCEPT ![t] = answer]
    /\ IF answer.kind = "ok"
       THEN /\ recommendation' = [recommendation EXCEPT ![t] =
                    narrative_recommendation(answer, classification[t])]
            /\ pc' = [pc EXCEPT ![t] = "assemble"]
       ELSE UNCHANGED <<recommendation, pc>>
    /\ UNCHANGED <<classification_url, model, faults, patient, classification, response,
                   error, remote_outcome, calls, raised, call>>

LLMReturnsWith(t, answer) ==
    /\ pc[t] = "await_llm"
    /\ llm_outcome' = [llm_outcome EXCEPT ![t] = answer]
    /\ recommendation' = [recommendation EXCEPT ![t] =
            narrative_recommendation(answer, classification[t])]
    /\ pc' = [pc EXCEPT ![t] = "assemble"]
    /\ UNCHANGED <<classification_url, model, faults, patient, classification, response,
                   error, remote_outcome, calls, raised, call>>

LLMReturns(t) == \E answer \in LLMAnswers : LLMReturnsWith(t, answer)

Respond_without_waiting(t) ==
    /\ pc[t] \in {"assemble", "await_llm"}
    /\ response' = [response EXCEPT ![t] =
            PatientAnalysisResponse(patient[t], classification[t], recommendation[t])]
    /\ pc' = [pc EXCEPT ![t] = "returned"]
    /\ UNCHANGED <<classification_url, model, faults, patient, classification,
                   recommendation, error, remote_outcome, llm_outcome, calls, raised, call>>

\* analyze_patient, lines 93-114: the response is built and returned.
Respond(t) ==
    /\ pc[t] = "assemble"
    /\ response' = [response EXCEPT ![t] =
            PatientAnalysisResponse(patient[t], classification[t], recommendation[t])]
    /\ pc' = [pc EXCEPT ![t] = "returned"]
    /\ UNCHANGED <<classification_url, model, faults, patient, classification,
                   recommendation, error, remote_outcome, llm_outcome, calls, raised, call>>

(***************************************************************************)
(* The program as shipped: one analysis of a validated snapshot, with or   *)
(* without a remote endpoint and a narrative delegate, no injected fault.  *)
(***************************************************************************)
NoCall ==
    [fn |-> "none", patient_data |-> NoPatient, risk_level |-> None, done |-> FALSE,
     level |-> None, flag |-> FALSE, number |-> NoneNum,
     classification |-> NoClassification, text |-> <<>>]

InitAnalyses(ids) ==
    /\ pc = [t \in ids |-> "start"]
    /\ patient \in [ids -> PipelineSnapshots]
    /\ classification = [t \in ids |-> NoClassification]
    /\ recommendation = [t \in ids |-> NoRecommendation]
    /\ response = [t \in ids |-> NoResponse]
    /\ error = [t \in ids |-> None]
    /\ remote_outcome = [t \in ids |-> NoAnswer]
    /\ llm_outcome = [t \in ids |-> NoLLMAnswer]
    /\ calls = [t \in ids |-> NoCalls]
    /\ raised = [t \in ids |-> NoRaise]

Init ==
    /\ classification_url \in BOOLEAN
    /\ model \in BOOLEAN
    /\ faults = {}
    /\ InitAnalyses({1})
    /\ call = NoCall

ClassifyStep == \E t \in Tasks : Classify(t)
RemoteReturnsStep == \E t \in Tasks : RemoteReturns(t)
GenerateRecommendationStep == \E t \in Tasks : GenerateRecommendation(t)
LLMReturnsStep == \E t \in Tasks : LLMReturns(t)
RespondStep == \E t \in Tasks : Respond(t)

Next ==
    \/ ClassifyStep
    \/ RemoteReturnsStep
    \/ GenerateRecommendationStep
    \/ LLMReturnsStep
    \/ RespondStep

Spec == Init /\ [][Next]_vars

(***************************************************************************)
(* The same analysis with faults injected into the collaborators.          *)
(***************************************************************************)
InitFault ==
    /\ classification_url \in BOOLEAN
    /\ model \in BOOLEAN
    /\ faults \in SUBSET FaultKinds
    /\ InitAnalyses({1})
    /\ call = NoCall

SpecFault == InitFault /\ [][Next]_vars


(***************************************************************************)
(* Progress.  The event loop resumes every coroutine that is ready, and    *)
(* each of the two awaited calls ends: httpx.AsyncClient(timeout=30.0)     *)
(* and asyncio.wait_for(..., timeout=30.0) turn a call that does not       *)
(* answer into a timeout.  Hence weak fairness of every step.              *)
(***************************************************************************)
\* The snapshots of the fair runs: the three documented examples and a critical one.
LiveSnapshots ==
    { [idade |-> 65, nivel_glicose |-> 1405, pressao_sistolica |-> 130,
       pressao_diastolica |-> 85, historico_familiar |-> TRUE],
      [idade |-> 65, nivel_glicose |-> 2800, pressao_sistolica |-> 160,
       pressao_diastolica |-> 95, historico_familiar |-> TRUE],
      [idade |-> 30, nivel_glicose |-> 900, pressao_sistolica |-> 110,
       pressao_diastolica |-> 70, historico_familiar |-> FALSE],
      [idade |-> 81, nivel_glicose |-> 3010, pressao_sistolica |-> 181,
       pressao_diastolica |-> 111, historico_familiar |-> TRUE] }

InitLive ==
    /\ classification_url \in BOOLEAN
    /\ model \in BOOLEAN
    /\ faults \in SUBSET FaultKinds
    /\ InitAnalyses({1})
    /\ patient \in [{1} -> LiveSnapshots]
    /\ call = NoCall

Fairness ==
    /\ WF_vars(ClassifyStep)
    /\ WF_vars(RemoteReturnsStep)
    /\ WF_vars(GenerateRecommendationStep)
    /\ WF_vars(LLMReturnsStep)
    /\ WF_vars(RespondStep)

SpecLive == InitLive /\ [][Next]_vars /\ Fairness


(***************************************************************************)
(* Two analyses in flight at once on one event loop: their steps           *)
(* interleave at the awaits.  The services hold no per-analysis state      *)
(* (classification_url, timeout, strategy, model are set once in __init__; *)
(* LLMService.builder is never used, _generate_local_recommendation makes  *)
(* its own RecommendationBuilder).                                         *)
(***************************************************************************)
\* A LOW, a HIGH and a CRITICAL snapshot; their local texts differ.
PairSnapshots ==
    { [idade |-> 30, nivel_glicose |-> 900, pressao_sistolica |-> 110,
       pressao_diastolica |-> 70, historico_familiar |-> FALSE],
      [idade |-> 81, nivel_glicose |-> 2800, pressao_sistolica |-> 160,
       pressao_diastolica |-> 95, historico_familiar |-> TRUE],
      [idade |-> 30, nivel_glicose |-> 900, pressao_sistolica |-> 181,
       pressao_diastolica |-> 111, historico_familiar |-> FALSE] }

\* The answers the two analyses can get: a timeout, a body that is no JSON, a complete
\* and an empty payload; a timeout of the delegate and a one-line narrative.
PairRemoteAnswers ==
    {a \in RemoteAnswers :
        \/ a.kind \in {"timeout", "invalid_json"}
        \/ a.kind = "ok" /\ a.payload.confidence = "missing"
        \/ a.kind = "ok" /\ a.payload = [is_outlier |-> "true", confidence |-> "0.9",
                                          risk_level |-> "high"]}

PairLLMAnswers ==
    {a \in LLMAnswers :
        \/ a.kind = "timeout"
        \/ a.kind = "ok" /\ a.text = <<Line(1, "urgent_contact", "narrative", 2)>>}

RemoteReturnsPairStep ==
    \E t \in Tasks : \E answer \in PairRemoteAnswers : RemoteReturnsWith(t, answer)

LLMReturnsPairStep ==
    \E t \in Tasks : \E answer \in PairLLMAnswers : LLMReturnsWith(t, answer)

InitPair ==
    /\ classification_url \in BOOLEAN
    /\ model \in BOOLEAN
    /\ faults = {}
    /\ InitAnalyses({1, 2})
    /\ patient \in [{1, 2} -> PairSnapshots]
    /\ call = NoCall

NextPair ==
    \/ ClassifyStep
    \/ RemoteReturnsPairStep
    \/ GenerateRecommendationStep
    \/ LLMReturnsPairStep
    \/ RespondStep

SpecPair == InitPair /\ [][NextPair]_vars


(***************************************************************************)
(* Snapshot construction: a request body becomes a PatientDataInput, or is *)
(* rejected, before analyze_patient is called with it.                     *)
(***************************************************************************)
\* Request bodies: values inside and outside the field ranges, systolic below, equal to
\* and above diastolic.
RawSnapshots ==
    [idade : {30, 81, 121}, nivel_glicose : {900, 3010, 8010},
     pressao_sistolica : {59, 110, 160, 181}, pressao_diastolica : {70, 110, 160, 181},
     historico_familiar : BOOLEAN]

\* PatientDataInput(**body): the validated snapshot goes on to analyze_patient, a
\* body that fails validation never reaches it.
Construct(t) ==
    /\ pc[t] = "received"
    /\ pc' = [pc EXCEPT ![t] =
            IF PatientDataInputValid(patient[t]) THEN "start" ELSE "rejected"]
    /\ UNCHANGED <<classification_url, model, faults, patient, classification,
                   recommendation, response, error, remote_outcome, llm_outcome, calls,
                   raised, call>>

ConstructStep == \E t \in Tasks : Construct(t)

InitInput ==
    /\ classification_url \in BOOLEAN
    /\ model \in BOOLEAN
    /\ faults = {}
    /\ pc = [t \in {1} |-> "received"]
    /\ patient \in [{1} -> RawSnapshots]
    /\ classification = [t \in {1} |-> NoClassification]
    /\ recommendation = [t \in {1} |-> NoRecommendation]
    /\ response = [t \in {1} |-> NoResponse]
    /\ error = [t \in {1} |-> None]
    /\ remote_outcome = [t \in {1} |-> NoAnswer]
    /\ llm_outcome = [t \in {1} |-> NoLLMAnswer]
    /\ calls = [t \in {1} |-> NoCalls]
    /\ raised = [t \in {1} |-> NoRaise]
    /\ call = NoCall

NextInput ==
    \/ ConstructStep
    \/ ClassifyStep
    \/ RemoteReturnsStep
    \/ GenerateRecommendationStep
    \/ LLMReturnsStep
    \/ RespondStep

SpecInput == InitInput /\ [][NextInput]_vars


(***************************************************************************)
(* Unit harness: the static methods of ClassificationStrategy applied      *)
(* directly, one application per step, to inputs drawn from the boundary   *)
(* values.  No analysis runs in it.                                        *)
(***************************************************************************)
\* A dict in which the required fields outside `present` are None or absent.
Partial(p, present) ==
    [f \in DOMAIN p |-> IF f \in required_fields /\ f \notin present THEN NoneNum ELSE p[f]]

PipelineUnchanged ==
    UNCHANGED <<classification_url, model, faults, pc, patient, classification,
                recommendation, response, error, remote_outcome, llm_outcome, calls,
                raised>>

\* The applications the harness makes: the function and its arguments.
Pending(fn, patient_data, risk_level) ==
    [NoCall EXCEPT !.fn = fn, !.patient_data = patient_data, !.risk_level = risk_level]

EngineCalls ==
    \/ \E p \in Snapshots : call = Pending("calculate_risk_level", p, None)
    \/ \E risk_level \in RiskLevel : call = Pending("is_outlier", NoPatient, risk_level)
    \/ \E risk_level \in RiskLevel, p \in PipelineSnapshots,
          present \in SUBSET required_fields :
            call = Pending("calculate_confidence", Partial(p, present), risk_level)

CallCalculateRiskLevel ==
    /\ call.fn = "calculate_risk_level" /\ ~call.done
    /\ call' = [call EXCEPT !.done = TRUE, !.level = calculate_risk_level(call.patient_data)]
    /\ PipelineUnchanged

CallIsOutlier ==
    /\ call.fn = "is_outlier" /\ ~call.done
    /\ call' = [call EXCEPT !.done = TRUE, !.flag = is_outlier(call.risk_level)]
    /\ PipelineUnchanged

CallCalculateConfidence ==
    /\ call.fn = "calculate_confidence" /\ ~call.done
    /\ call' = [call EXCEPT !.done = TRUE,
                            !.number = calculate_confidence(call.risk_level, call.patient_data)]
    /\ PipelineUnchanged

InitEngine ==
    /\ classification_url = FALSE
    /\ model = FALSE
    /\ faults = {}
    /\ InitAnalyses({})
    /\ EngineCalls

NextEngine ==
    \/ CallCalculateRiskLevel
    \/ CallIsOutlier
    \/ CallCalculateConfidence

SpecEngine == InitEngine /\ [][NextEngine]_vars


(***************************************************************************)
(* Unit harness of the local assembler: _generate_local_recommendation     *)
(* applied directly to a snapshot and a classification.  The               *)
(* classification need not be the local one of the snapshot: the remote    *)
(* classifier can pair any risk level, None included, with any snapshot.   *)
(***************************************************************************)
\* Validated snapshots around every threshold the assembler compares with.
AssemblerSnapshots ==
    {p \in [idade : {30} \cup Around(65) \cup Around(80),
            nivel_glicose : {900} \cup Around(140 * GlucoseScale)
                                  \cup Around(200 * GlucoseScale)
                                  \cup Around(300 * GlucoseScale),
            pressao_sistolica : {110} \cup Around(140) \cup Around(160) \cup Around(180),
            pressao_diastolica : {70} \cup Around(90) \cup Around(100) \cup Around(110),
            historico_familiar : BOOLEAN] :
        PatientDataInputValid(p)}

\* Every risk level, None included, with either outlier flag.
AssemblerClassifications ==
    {ClassificationResult(outlier, 9000, risk_level) :
        outlier \in BOOLEAN, risk_level \in RiskLevel \cup {None}}

\* The application the harness makes: the method and its two arguments.
PendingAssembly(patient_data, c) ==
    [NoCall EXCEPT !.fn = "generate_local_recommendation", !.patient_data = patient_data,
                   !.classification = c]

CallGenerateLocalRecommendation ==
    /\ call.fn = "generate_local_recommendation" /\ ~call.done
    /\ call' = [call EXCEPT !.done = TRUE,
                            !.text = generate_local_recommendation(call.patient_data,
                                                                   call.classification)]
    /\ PipelineUnchanged

InitAssembler ==
    /\ classification_url = FALSE
    /\ model = FALSE
    /\ faults = {}
    /\ InitAnalyses({})
    /\ \E p \in AssemblerSnapshots, c \in AssemblerClassifications :
          call = PendingAssembly(p, c)

NextAssembler == CallGenerateLocalRecommendation

SpecAssembler == InitAssembler /\ [][NextAssembler]_vars


(***************************************************************************)
(* Properties.                                                             *)
(***************************************************************************)
Snapshot(idade, glicose, sistolica, diastolica, historico) ==
    [idade |-> idade, nivel_glicose |-> glicose, pressao_sistolica |-> sistolica,
     pressao_diastolica |-> diastolica, historico_familiar |-> historico]

\* The documented examples: {65, 140.5, 130/85, true}, {65, 280, 160/95, true},
\* {30, 90, 110/70, false}.
ExampleBorderline == Snapshot(65, 1405, 130, 85, TRUE)
ExampleSevere == Snapshot(65, 2800, 160, 95, TRUE)
ExampleHealthy == Snapshot(30, 900, 110, 70, FALSE)

\* C1: when an endpoint is configured and the remote call ended in a network error, a
\* timeout or a non-2xx status, classify has not raised and the classification is the one
\* the local rule engine computes for the same snapshot; for the example
\* {65, 140.5, 130/85, true} that is MEDIUM or LOW.
C1_RemoteUnavailableFallsBackToLocal ==
    \A t \in Tasks :
        remote_outcome[t].kind \in {"timeout", "request_error", "http_status_error"} =>
            /\ pc[t] # "failed"
            /\ error[t] = None
            /\ classification[t] = local_classification(patient[t])
            /\ calls[t].remote = 1 /\ calls[t].local = 1
            /\ patient[t] = ExampleBorderline =>
                  /\ classification[t].risk_level \in {MEDIUM, LOW}
                  /\ ~classification[t].is_outlier

C1_Witness ==
    \E t \in Tasks :
        /\ classification_url
        /\ remote_outcome[t].kind = "timeout"
        /\ patient[t] = ExampleBorderline
        /\ pc[t] = "returned"
        /\ response[t].classification.risk_level = MEDIUM
        /\ response[t].classification.confidence = 7500

\* C2: classify fails only when the local rule engine throws: whatever the remote
\* classifier answered (unreachable, timed out, error status, a success body that cannot
\* be parsed or mapped), the analysis has not failed unless the local engine threw.
C2_ClassifyFailsOnlyWhenLocalEngineThrows ==
    \A t \in Tasks :
        (pc[t] = "failed" \/ error[t] # None) =>
            ("local_engine" \in faults /\ calls[t].local > 0)

\* C3: once classify has returned a result the analysis never fails: whatever the
\* narrative delegate, the local assembler or the orchestrator does (succeed, raise, time
\* out), no error escapes analyze_patient, the analysis can always take its next step
\* until it has returned, and what it returns is a response.
C3_RecommendationPathNeverFails ==
    \A t \in Tasks :
        classification[t] # NoClassification =>
            /\ pc[t] \in {"classified", "await_llm", "assemble", "returned"}
            /\ error[t] = None
            /\ pc[t] # "returned" =>
                  ENABLED (GenerateRecommendation(t) \/ LLMReturns(t) \/ Respond(t))
            /\ pc[t] = "returned" => response[t] # NoResponse

C3_Witness ==
    \E t \in Tasks :
        /\ pc[t] = "returned"
        /\ "orchestrator" \in faults
        /\ response[t].classification.is_outlier
        /\ response[t].recommendation = service_fallback

\* C4: a returned response carries a recommendation if and only if the outlier flag of
\* its classification is true; for a non-outlier the recommendation orchestrator, the
\* delegate and the assembler were never invoked, and the example {30, 90, 110/70,
\* false}, classified locally, is LOW with no recommendation.
C4_RecommendationIffOutlier ==
    \A t \in Tasks :
        pc[t] = "returned" =>
            /\ (response[t].recommendation # NoRecommendation)
                  <=> response[t].classification.is_outlier
            /\ ~response[t].classification.is_outlier =>
                  /\ calls[t].recommendation = 0
                  /\ calls[t].llm = 0
                  /\ calls[t].assembler = 0
            /\ (patient[t] = ExampleHealthy /\ calls[t].local = 1) =>
                  /\ response[t].classification.risk_level = LOW
                  /\ response[t].recommendation = NoRecommendation

C4_Witness ==
    \E t \in Tasks :
        /\ pc[t] = "returned"
        /\ patient[t] = ExampleHealthy
        /\ calls[t].local = 1
        /\ response[t].classification.risk_level = LOW
        /\ ~response[t].classification.is_outlier
        /\ response[t].recommendation = NoRecommendation

\* C5: with local classification and no narrative delegate, the analysis of
\* {65, 280, 160/95, true} returns risk level HIGH, is_outlier = true, confidence 0.85
\* and a recommendation of priority "urgent".
C5_SevereExampleIsHighAndUrgent ==
    \A t \in Tasks :
        (pc[t] = "returned" /\ patient[t] = ExampleSevere /\ ~classification_url /\ ~model) =>
            /\ response[t].classification.risk_level = HIGH
            /\ response[t].classification.is_outlier
            /\ response[t].classification.confidence = 8500
            /\ response[t].recommendation.priority = "urgent"


\* mg/dL as the model keeps glucose.
MgDl(n) == n * GlucoseScale

\* The rule table of the risk engine, first match wins.
FirstMatchingRule(p) ==
    LET g == p.nivel_glicose
        sys == p.pressao_sistolica
        dia == p.pressao_diastolica
        age == p.idade
        severe == {c \in {"glucose", "systolic", "diastolic", "elderly_diabetic", "very_old"} :
                    \/ c = "glucose" /\ g > MgDl(200)
                    \/ c = "systolic" /\ sys > 160
                    \/ c = "diastolic" /\ dia > 100
                    \/ c = "elderly_diabetic" /\ age > 70 /\ g > MgDl(140)
                    \/ c = "very_old" /\ age > 80}
    IN  CASE g > MgDl(300) \/ sys > 180 \/ dia > 110 -> CRITICAL
          [] \E c1, c2 \in severe : c1 # c2 -> HIGH
          [] \/ \E c1 \in severe : \A c2 \in severe : c2 = c1
             \/ (p.historico_familiar /\ (g > MgDl(126) \/ sys > 140)) -> MEDIUM
          [] OTHER -> LOW

\* C6: calculate_risk_level is total on validated snapshots and returns the level of the
\* first matching rule: CRITICAL if glucose > 300 or systolic > 180 or diastolic > 110;
\* else HIGH if at least two of the five severity conditions hold; else MEDIUM if exactly
\* one holds or (family history and (glucose > 126 or systolic > 140)); else LOW.
C6_RiskLevelIsFirstMatchingRule ==
    call.fn = "calculate_risk_level" =>
        /\ ~call.done => ENABLED CallCalculateRiskLevel
        /\ call.done =>
              /\ call.level \in RiskLevel
              /\ call.level = FirstMatchingRule(call.patient_data)

C6_Witness ==
    /\ call.fn = "calculate_risk_level" /\ call.done
    /\ call.patient_data = Snapshot(71, 1401, 130, 85, FALSE)
    /\ call.level = MEDIUM

Rank(level) ==
    CASE level = LOW -> 0 [] level = MEDIUM -> 1 [] level = HIGH -> 2 [] level = CRITICAL -> 3

\* The validated snapshots that differ from p in one of glucose, systolic, diastolic or
\* age only, and are larger there.
Raised(p) ==
    {q \in {[p EXCEPT !.nivel_glicose = v] : v \in Glicoses}
           \cup {[p EXCEPT !.pressao_sistolica = v] : v \in Sistolicas}
           \cup {[p EXCEPT !.pressao_diastolica = v] : v \in Diastolicas}
           \cup {[p EXCEPT !.idade = v] : v \in Idades} :
        /\ PatientDataInputValid(q)
        /\ q # p
        /\ q.nivel_glicose >= p.nivel_glicose
        /\ q.pressao_sistolica >= p.pressao_sistolica
        /\ q.pressao_diastolica >= p.pressao_diastolica
        /\ q.idade >= p.idade}

\* C7: the risk level is monotonic: for two validated snapshots that differ only in that
\* one of glucose, systolic, diastolic or age is larger in the second, the level of the
\* second is at least that of the first in the order LOW < MEDIUM < HIGH < CRITICAL.
C7_RiskLevelMonotonic ==
    (call.fn = "calculate_risk_level" /\ call.done) =>
        \A q \in Raised(call.patient_data) :
            Rank(calculate_risk_level(q)) >= Rank(call.level)

C7_Witness ==
    /\ call.fn = "calculate_risk_level" /\ call.done
    /\ call.level = MEDIUM
    /\ \E q \in Raised(call.patient_data) : calculate_risk_level(q) = HIGH
    /\ \E q \in Raised(call.patient_data) : calculate_risk_level(q) = MEDIUM

\* C8: is_outlier(risk_level) is true exactly for HIGH and CRITICAL and false for LOW and
\* MEDIUM.
C8_OutlierIffHighOrCritical ==
    (call.fn = "is_outlier" /\ call.done) =>
        /\ call.risk_level = HIGH => call.flag
        /\ call.risk_level = CRITICAL => call.flag
        /\ call.risk_level = LOW => ~call.flag
        /\ call.risk_level = MEDIUM => ~call.flag

C8_Witness ==
    /\ call.fn = "is_outlier" /\ call.done
    /\ call.risk_level = CRITICAL
    /\ call.flag

\* The base confidence of a level, in units of 1/10000.
BaseValue(level) ==
    CASE level = CRITICAL -> 9500 [] level = HIGH -> 8500
      [] level = MEDIUM -> 7500 [] level = LOW -> 7000

FieldsPresent(d) ==
    Cardinality({f \in {"idade", "nivel_glicose", "pressao_sistolica", "pressao_diastolica"} :
                    d[f] # NoneNum})

\* C9: with all four required fields present the confidence is the base value of the
\* level (0.95, 0.85, 0.75, 0.70) and lies in [0, 0.99]; with k of the four present it is
\* base * k / 4, capped at 0.99.
C9_ConfidenceIsBaseTimesCompleteness ==
    (call.fn = "calculate_confidence" /\ call.done) =>
        LET k == FieldsPresent(call.patient_data)
            base == BaseValue(call.risk_level)
        IN  /\ 4 * call.number = base * k
            /\ call.number >= 0 /\ call.number <= 9900
            /\ k = 4 => call.number = base

C9_Witness ==
    /\ call.fn = "calculate_confidence" /\ call.done
    /\ call.risk_level = CRITICAL
    /\ FieldsPresent(call.patient_data) = 2
    /\ call.number = 4750

HasNumbered(text, sections) ==
    \E i \in DOMAIN text : text[i].num > 0 /\ text[i].section \in sections

\* C10 as claimed: every returned recommendation of an outlier contains a numbered
\* urgent-contact line and a numbered follow-up line, whichever path produced it.  The
\* contact line and the follow-up guidance of the three hardcoded lines are taken to count.
C10_EveryOutlierTextHasContactAndFollowup ==
    \A t \in Tasks :
        (pc[t] = "returned" /\ response[t].classification.is_outlier) =>
            /\ HasNumbered(response[t].recommendation.content,
                           {"urgent_contact", "basic_contact"})
            /\ HasNumbered(response[t].recommendation.content,
                           {"followup", "basic_followup"})

\* C10 as amended: every returned recommendation of an outlier that the local rules
\* produced (producer tag local_rules) contains the urgent-contact line, numbered 1 and
\* first, and the follow-up line, numbered 9 and last.
C10_LocalRulesTextHasContactAndFollowup ==
    \A t \in Tasks :
        (/\ pc[t] = "returned"
         /\ response[t].classification.is_outlier
         /\ response[t].recommendation.generated_by = "local_rules") =>
            LET text == response[t].recommendation.content
            IN  /\ HasNumbered(text, {"urgent_contact"})
                /\ HasNumbered(text, {"followup"})
                /\ text[1].section = "urgent_contact" /\ text[1].num = 1
                /\ text[Len(text)].section = "followup" /\ text[Len(text)].num = 9

C10_Witness ==
    \E t \in Tasks :
        /\ pc[t] = "returned"
        /\ response[t].classification.is_outlier
        /\ response[t].recommendation.generated_by = "local_rules"
        /\ HasNumbered(response[t].recommendation.content, {"urgent_contact"})
        /\ HasNumbered(response[t].recommendation.content, {"followup"})

\* The priority tag of each risk level; a level outside the four (None) is "normal".
PriorityOf(level) ==
    CASE level = CRITICAL -> "critical"
      [] level = HIGH -> "urgent"
      [] level = MEDIUM -> "high"
      [] level = LOW -> "normal"
      [] OTHER -> "normal"

\* C11: the priority tag of every returned recommendation is the one the map gives for
\* the risk level of the classification (CRITICAL critical, HIGH urgent, MEDIUM high, LOW
\* normal, unknown normal), whatever the content and whichever path produced it; so two
\* analyses with the same risk level never differ in priority.
C11_PriorityIsFunctionOfRiskLevel ==
    \A t \in Tasks :
        (pc[t] = "returned" /\ response[t].recommendation # NoRecommendation) =>
            response[t].recommendation.priority
                = PriorityOf(response[t].classification.risk_level)

\* C12: a request body whose systolic pressure is less than or equal to its diastolic
\* pressure is rejected when the snapshot is constructed, whatever its other fields:
\* the analysis never starts, and neither the classification orchestrator (remote or
\* local) nor the recommendation orchestrator is invoked for it.
C12_SystolicNotAboveDiastolicIsRejected ==
    \A t \in Tasks :
        patient[t].pressao_sistolica <= patient[t].pressao_diastolica =>
            /\ pc[t] \in {"received", "rejected"}
            /\ calls[t] = NoCalls
            /\ classification[t] = NoClassification
            /\ recommendation[t] = NoRecommendation
            /\ response[t] = NoResponse

\* A body that is valid in every field but has systolic equal to diastolic was rejected.
C12_Witness ==
    \E t \in Tasks :
        /\ pc[t] = "rejected"
        /\ patient[t] = Snapshot(30, 900, 110, 110, FALSE)

\* C13: within one analysis the remote classifier is called at most once and the
\* narrative delegate at most once; once the remote attempt has ended in a timeout, a
\* connection error or an error status, the local classification has run exactly once
\* and no second remote call was made.
C13_NoRetries ==
    \A t \in Tasks :
        /\ calls[t].remote <= 1
        /\ calls[t].llm <= 1
        /\ remote_outcome[t].kind # "none" => calls[t].remote = 1
        /\ remote_outcome[t].kind \in {"timeout", "request_error", "http_status_error"} =>
              /\ calls[t].local = 1
              /\ pc[t] \notin {"start", "await_remote"}
        /\ llm_outcome[t].kind # "none" => (calls[t].llm = 1 /\ pc[t] # "await_llm")

\* An analysis that returned after the remote attempt timed out and the delegate failed.
C13_Witness ==
    \E t \in Tasks :
        /\ pc[t] = "returned"
        /\ remote_outcome[t].kind = "timeout"
        /\ llm_outcome[t].kind = "error"
        /\ calls[t].remote = 1 /\ calls[t].local = 1 /\ calls[t].llm = 1

\* C14: every analysis started on a valid snapshot eventually finishes: it returns a
\* response or fails with an application failure, given that every step that can be
\* taken is eventually taken (each awaited call returns, errors or times out).
C14_EveryAnalysisFinishes ==
    <>(\A t \in Tasks :
          \/ pc[t] = "returned" /\ response[t] # NoResponse
          \/ pc[t] = "failed" /\ error[t] \in {"ClassificationServiceException",
                                                "ConectaSaudeException"})

\* An analysis that finished after both awaited calls had timed out.
C14_Witness ==
    \E t \in Tasks :
        /\ pc[t] = "returned"
        /\ remote_outcome[t].kind = "timeout"
        /\ llm_outcome[t].kind = "timeout"

\* What an analysis returns when it runs alone: the classification and recommendation
\* determined by its own snapshot, the configuration and the answers it got itself.
AloneClassification(t) ==
    IF ~classification_url \/ remote_outcome[t].kind \in {"timeout", "request_error",
                                                          "http_status_error"}
    THEN local_classification(patient[t])
    ELSE external_result(remote_outcome[t].payload)

AloneRecommendation(t) ==
    LET c == AloneClassification(t)
    IN  IF ~c.is_outlier THEN NoRecommendation
        ELSE IF ~model
        THEN RecommendationData(generate_local_recommendation(patient[t], c),
                                determine_priority(c.risk_level), "local_rules")
        ELSE IF c.confidence = NoneNum THEN basic_fallback
        ELSE narrative_recommendation(llm_outcome[t], c)

\* C15: concurrent analyses are independent: under every interleaving of two analyses,
\* each returns the classification and the recommendation it returns when run alone on
\* its snapshot with the answers it got; two analyses with the same snapshot and the same
\* answers return the same; and every line of a locally assembled text is a line of the
\* text assembled for that analysis' own snapshot.
C15_ConcurrentAnalysesIndependent ==
    /\ \A t \in Tasks :
          pc[t] = "returned" =>
              /\ response[t] = PatientAnalysisResponse(patient[t], AloneClassification(t),
                                                       AloneRecommendation(t))
              /\ response[t].recommendation.generated_by = "local_rules" =>
                    response[t].recommendation.content
                        = generate_local_recommendation(patient[t],
                                                        response[t].classification)
    /\ \A t, u \in Tasks :
          (/\ pc[t] = "returned" /\ pc[u] = "returned"
           /\ patient[t] = patient[u]
           /\ remote_outcome[t] = remote_outcome[u]
           /\ llm_outcome[t] = llm_outcome[u]) => response[t] = response[u]

\* Two analyses of different outlier snapshots ran together, both were answered by the
\* local rules, and each got a text of its own.
C15_Witness ==
    \E t, u \in Tasks :
        /\ t # u
        /\ pc[t] = "returned" /\ pc[u] = "returned"
        /\ patient[t] # patient[u]
        /\ response[t].recommendation.generated_by = "local_rules"
        /\ response[u].recommendation.generated_by = "local_rules"
        /\ response[t].recommendation.content # response[u].recommendation.content

\* C16: when a narrative delegate is configured, the classification is an outlier and
\* the delegate fails (error or timeout), the returned recommendation is the text the
\* local assembler produces for that snapshot and classification, with the priority of
\* the risk-level map, and no error reaches the caller.
C16_DelegateFailureFallsBackToAssembler ==
    \A t \in Tasks :
        (/\ pc[t] = "returned"
         /\ model
         /\ response[t].classification.is_outlier
         /\ llm_outcome[t].kind \in {"timeout", "error"}) =>
            /\ error[t] = None
            /\ response[t].recommendation.content
                  = generate_local_recommendation(patient[t], response[t].classification)
            /\ response[t].recommendation.priority
                  = PriorityOf(response[t].classification.risk_level)

\* C17: if an exception escapes the recommendation orchestrator, the coordinator catches
\* it and the returned response has no recommendation.
C17_EscapedExceptionGivesAbsentRecommendation ==
    \A t \in Tasks :
        (/\ pc[t] = "returned"
         /\ "orchestrator" \in faults
         /\ calls[t].recommendation > 0) =>
            /\ error[t] = None
            /\ response[t].recommendation = NoRecommendation

\* C18: if the local rule engine throws, classify fails with a
\* ClassificationServiceException, both when no endpoint is configured and when the
\* engine runs as the fallback after a remote failure.
C18_LocalEngineFailureIsClassificationFailure ==
    \A t \in Tasks :
        ("local_engine" \in faults /\ calls[t].local > 0) =>
            /\ pc[t] = "failed"
            /\ raised[t].classify = "ClassificationServiceException"
            /\ error[t] = "ClassificationServiceException"

\* C19: when the remote classifier answered with success and classify returned a result,
\* each of outlier flag, confidence and risk level is the value of the remote payload,
\* a field missing from the payload has its default (outlier false, confidence 0.5, risk
\* MEDIUM), and the local rule engine was not consulted.
C19_RemoteSuccessMapsPayloadWithDefaults ==
    \A t \in Tasks :
        (remote_outcome[t].kind = "ok" /\ classification[t] # NoClassification) =>
            LET data == remote_outcome[t].payload
                c == classification[t]
            IN  /\ calls[t].local = 0
                /\ data.is_outlier = "missing" => c.is_outlier = FALSE
                /\ data.is_outlier = "true" => c.is_outlier = TRUE
                /\ data.is_outlier = "false" => c.is_outlier = FALSE
                /\ data.confidence = "missing" => c.confidence = 5000
                /\ data.confidence = "0.9" => c.confidence = 9000
                /\ data.confidence = "null" => c.confidence = NoneNum
                /\ data.risk_level = "missing" => c.risk_level = MEDIUM
                /\ data.risk_level = "null" => c.risk_level = None
                /\ data.risk_level \notin {"missing", "null"} => c.risk_level = data.risk_level
                /\ pc[t] = "returned" => response[t].classification = c

\* An empty payload was answered and the analysis returned the three defaults.
C19_Witness ==
    \E t \in Tasks :
        /\ pc[t] = "returned"
        /\ remote_outcome[t].kind = "ok"
        /\ remote_outcome[t].payload = [is_outlier |-> "missing", confidence |-> "missing",
                                         risk_level |-> "missing"]
        /\ response[t].classification = ClassificationResult(FALSE, 5000, MEDIUM)
        /\ calls[t].local = 0

\* C20: once the snapshot is validated, whatever escapes analyze_patient is a
\* ConectaSaudeException (the base kind or its ClassificationServiceException subclass)
\* that records the original cause, and it arises only from a failure of the
\* classification step: no result was classified, no recommendation was attempted, and
\* an analysis that did not fail carries no error.
C20_OnlyApplicationFailureEscapes ==
    \A t \in Tasks :
        /\ (pc[t] = "failed") <=> (error[t] # None)
        /\ error[t] # None =>
              /\ error[t] \in {"ConectaSaudeException", "ClassificationServiceException"}
              /\ raised[t].origin # None
              /\ raised[t].original_error = raised[t].origin
              /\ classification[t] = NoClassification
              /\ calls[t].recommendation = 0 /\ calls[t].llm = 0 /\ calls[t].assembler = 0
              /\ response[t] = NoResponse

\* The local engine threw an unexpected exception and the analysis failed with the
\* application failure that records it.
C20_Witness ==
    \E t \in Tasks :
        /\ pc[t] = "failed"
        /\ "local_engine" \in faults
        /\ raised[t].origin = "Exception"
        /\ error[t] = "ConectaSaudeException"
        /\ raised[t].original_error = "Exception"

\* The two hardcoded minimal texts: the three lines of _generate_basic_recommendation and
\* the single line of PatientService._generate_recommendation.
MinimalTexts ==
    { <<Line(1, "basic_contact", "Contatar paciente para agendamento", 0),
        Line(2, "basic_appointment", "Agendar consulta medica", 0),
        Line(3, "basic_followup", "Orientar sobre acompanhamento regular", 0)>>,
      <<Line(0, "service_fallback", "Agendar consulta medica para avaliacao detalhada", 0)>> }

\* C21: the producer tag of every returned recommendation names the path that produced
\* its text: gemini_llm only if the narrative delegate was called and answered, and the
\* text is its (stripped) answer; local_rules only if the local assembler built the text;
\* fallback only if an error occurred on the recommendation path (the delegate failed or
\* could not be called, the assembler or the orchestrator raised) and the text is one of
\* the hardcoded minimal texts.
C21_ProducerTagNamesThePath ==
    \A t \in Tasks :
        (pc[t] = "returned" /\ response[t].recommendation # NoRecommendation) =>
            LET r == response[t].recommendation
            IN  /\ r.generated_by \in {"gemini_llm", "local_rules", "fallback"}
                /\ r.generated_by = "gemini_llm" =>
                      /\ calls[t].llm = 1
                      /\ llm_outcome[t].kind = "ok"
                      /\ r.content = strip(llm_outcome[t].text)
                      /\ calls[t].assembler = 0
                /\ r.generated_by = "local_rules" =>
                      /\ calls[t].assembler = 1
                      /\ calls[t].llm = 0
                      /\ r.content \notin MinimalTexts
                      /\ r.content[1].section = "urgent_contact"
                /\ r.generated_by = "fallback" =>
                      /\ r.content \in MinimalTexts
                      /\ \/ llm_outcome[t].kind \in {"timeout", "error"}
                         \/ (model /\ response[t].classification.confidence = NoneNum)
                         \/ "assembler" \in faults
                         \/ "orchestrator" \in faults

\* All three tags occur: here the delegate timed out and the minimal text came back
\* tagged fallback.
C21_Witness ==
    \E t \in Tasks :
        /\ pc[t] = "returned"
        /\ faults = {}
        /\ llm_outcome[t].kind = "timeout"
        /\ response[t].recommendation.generated_by = "fallback"
        /\ response[t].recommendation.content \in MinimalTexts

\* C22: in every analysis the steps occur in the order classification, recommendation
\* (only for an outlier), response: the recommendation orchestrator is not invoked before
\* classify has returned a result, never when classification failed and never for a
\* non-outlier, and the response is built only after classify has returned and the
\* recommendation step, with the delegate call it may have made, has finished.
C22_ClassifyThenRecommendThenRespond ==
    \A t \in Tasks :
        /\ pc[t] \in {"start", "await_remote", "failed"} =>
              /\ calls[t].recommendation = 0 /\ calls[t].llm = 0 /\ calls[t].assembler = 0
              /\ recommendation[t] = NoRecommendation
              /\ response[t] = NoResponse
        /\ calls[t].recommendation > 0 =>
              (classification[t] # NoClassification /\ classification[t].is_outlier)
        /\ pc[t] \in {"classified", "await_llm", "assemble"} =>
              (classification[t] # NoClassification /\ response[t] = NoResponse)
        /\ response[t] # NoResponse =>
              /\ pc[t] = "returned"
              /\ response[t].classification = classification[t]
              /\ classification[t] # NoClassification
              /\ response[t].recommendation = recommendation[t]
              /\ calls[t].llm > 0 => llm_outcome[t].kind # "none"
              /\ classification[t].is_outlier => calls[t].recommendation = 1

\* An analysis went through all three steps, the delegate call included.
C22_Witness ==
    \E t \in Tasks :
        /\ pc[t] = "returned"
        /\ response[t].classification.is_outlier
        /\ calls[t].recommendation = 1
        /\ calls[t].llm = 1
        /\ llm_outcome[t].kind = "ok"

\* C23: the narrative delegate is called only when a delegate is configured and the
\* classification is an outlier; without a delegate it is never called and the text of an
\* outlier is built by the local assembler; without a remote endpoint the remote
\* classifier is never called.
C23_DelegateAndRemoteOnlyWhenConfigured ==
    \A t \in Tasks :
        /\ calls[t].llm > 0 => (model /\ classification[t].is_outlier)
        /\ llm_outcome[t].kind # "none" => (model /\ classification[t].is_outlier)
        /\ ~model =>
              /\ calls[t].llm = 0
              /\ (pc[t] = "returned" /\ response[t].classification.is_outlier) =>
                    /\ calls[t].assembler = 1
                    /\ response[t].recommendation.generated_by = "local_rules"
                    /\ response[t].recommendation.content
                          = generate_local_recommendation(patient[t], classification[t])
        /\ ~classification_url =>
              /\ calls[t].remote = 0
              /\ remote_outcome[t] = NoAnswer
              /\ pc[t] # "await_remote"

\* Neither an endpoint nor a delegate is configured and an outlier got the local text.
C23_Witness ==
    \E t \in Tasks :
        /\ ~model /\ ~classification_url
        /\ pc[t] = "returned"
        /\ response[t].classification.is_outlier
        /\ calls[t] = [remote |-> 0, local |-> 1, recommendation |-> 1, llm |-> 0,
                       assembler |-> 1]

\* The sections of the local assembler in their fixed order.
SectionOrder(section) ==
    CASE section = "urgent_contact" -> 1
      [] section = "medical_appointment" -> 2
      [] section = "glucose_monitoring" -> 3
      [] section = "pressure_monitoring" -> 4
      [] section = "elderly_care" -> 5
      [] section = "family_guidance" -> 6
      [] section = "lifestyle_guidance" -> 7
      [] section = "followup" -> 8

Assembled == call.fn = "generate_local_recommendation" /\ call.done

\* C24: the text of the local assembler is its lines in the fixed section order
\* urgent-contact, appointment, glucose block, pressure block, elderly-care,
\* family-guidance, lifestyle, follow-up: for every snapshot and classification the first
\* line is the urgent-contact directive, the second the appointment directive, the last
\* the follow-up line, each of these three occurs once, and no line of a later section
\* precedes a line of an earlier one.
C24_AssemblerSectionsInFixedOrder ==
    Assembled =>
        LET text == call.text
        IN  /\ Len(text) >= 4
            /\ text[1].section = "urgent_contact"
            /\ text[2].section = "medical_appointment"
            /\ text[Len(text)].section = "followup"
            /\ \A i, j \in DOMAIN text :
                  i < j => SectionOrder(text[i].section) <= SectionOrder(text[j].section)
            /\ \A s \in {"urgent_contact", "medical_appointment", "lifestyle_guidance",
                         "followup"} :
                  Cardinality({i \in DOMAIN text : text[i].section = s}) = 1

\* A text with every section: both monitoring blocks, elderly care and family guidance.
C24_Witness ==
    /\ Assembled
    /\ {call.text[i].section : i \in DOMAIN call.text}
          = {"urgent_contact", "medical_appointment", "glucose_monitoring",
             "pressure_monitoring", "elderly_care", "family_guidance",
             "lifestyle_guidance", "followup"}

\* The number of lines of a section in a text.
LinesOf(text, section) == Cardinality({i \in DOMAIN text : text[i].section = section})

\* C25: the local assembler emits exactly 3 glucose-monitoring lines when glucose > 300,
\* exactly 2 when 200 < glucose <= 300, and none when glucose <= 200, the range
\* 140 < glucose <= 200, in which the block is entered, included.
C25_GlucoseLinesByTier ==
    Assembled =>
        LET g == call.patient_data.nivel_glicose
            n == LinesOf(call.text, "glucose_monitoring")
        IN  /\ g > MgDl(300) => n = 3
            /\ (g > MgDl(200) /\ g <= MgDl(300)) => n = 2
            /\ g <= MgDl(200) => n = 0

\* Glucose of 200 mg/dL enters the block (it is above 140) and gets no glucose line.
C25_Witness ==
    /\ Assembled
    /\ call.patient_data.nivel_glicose = MgDl(200)
    /\ LinesOf(call.text, "glucose_monitoring") = 0

\* C26: the local assembler emits pressure-monitoring lines only if systolic > 140 or
\* diastolic > 90: exactly 3 when systolic > 180 or diastolic > 110, exactly 2 when that
\* does not hold but systolic > 160 or diastolic > 100, and none in every other case.
C26_PressureLinesByTier ==
    Assembled =>
        LET sys == call.patient_data.pressao_sistolica
            dia == call.patient_data.pressao_diastolica
            n == LinesOf(call.text, "pressure_monitoring")
            top == sys > 180 \/ dia > 110
            mid == ~top /\ (sys > 160 \/ dia > 100)
        IN  /\ n > 0 => (sys > 140 \/ dia > 90)
            /\ top => n = 3
            /\ mid => n = 2
            /\ (~top /\ ~mid) => n = 0

\* Pressure 160/91 passes the gate (diastolic above 90) and gets no pressure line.
C26_Witness ==
    /\ Assembled
    /\ call.patient_data.pressao_sistolica = 160
    /\ call.patient_data.pressao_diastolica = 91
    /\ LinesOf(call.text, "pressure_monitoring") = 0

\* The follow-up interval of each risk level, in days; 30 for a level outside the four.
FollowupInterval(level) ==
    CASE level = CRITICAL -> 3
      [] level = HIGH -> 7
      [] level = MEDIUM -> 15
      [] level = LOW -> 30
      [] OTHER -> 30

FollowupLines(text) == {i \in DOMAIN text : text[i].section = "followup"}

\* C27: the follow-up line of every text the local assembler built states 3 days for
\* CRITICAL, 7 for HIGH, 15 for MEDIUM, 30 for LOW, and 30 days also when the risk level
\* is none of the four.
C27_FollowupIntervalByRiskLevel ==
    \A t \in Tasks :
        (pc[t] = "returned" /\ response[t].recommendation.generated_by = "local_rules") =>
            LET text == response[t].recommendation.content
            IN  /\ FollowupLines(text) # {}
                /\ \A i \in FollowupLines(text) :
                      text[i].value = FollowupInterval(response[t].classification.risk_level)

\* Increasing leading numbers from the first line to the last.
StrictlyIncreasing(text) == \A i, j \in DOMAIN text : i < j => text[i].num < text[j].num

\* C28: in every text the local assembler built the leading numbers of the lines are
\* pairwise distinct and strictly increasing from the first line to the last, also when
\* the snapshot triggers both the glucose block and the pressure block.
C28_LineNumbersStrictlyIncreasing ==
    \A t \in Tasks :
        (pc[t] = "returned" /\ response[t].recommendation.generated_by = "local_rules") =>
            StrictlyIncreasing(response[t].recommendation.content)

\* C29: in every classification classify returned, locally or from the remote classifier,
\* the outlier flag is true if and only if the risk level is HIGH or CRITICAL; hence no
\* returned analysis carries a recommendation with a reported level of LOW or MEDIUM, and
\* none lacks it with HIGH or CRITICAL.
C29_OutlierFlagMatchesRiskLevel ==
    \A t \in Tasks :
        /\ classification[t] # NoClassification =>
              (classification[t].is_outlier <=> classification[t].risk_level \in {HIGH, CRITICAL})
        /\ pc[t] = "returned" =>
              /\ response[t].classification.risk_level \in {LOW, MEDIUM} =>
                    response[t].recommendation = NoRecommendation
              /\ response[t].classification.risk_level \in {HIGH, CRITICAL} =>
                    response[t].recommendation # NoRecommendation

\* C30: for every valid snapshot the local rule engine classifies CRITICAL, the text the
\* local assembler builds from that classification holds the 3-line glucose block or the
\* 3-line pressure block, the 2-hour urgent-contact window and the 3-day follow-up.
C30_CriticalTextHasTopTierBlock ==
    (/\ Assembled
     /\ calculate_risk_level(call.patient_data) = CRITICAL
     /\ call.classification.risk_level = CRITICAL
     /\ call.classification.is_outlier = is_outlier(CRITICAL)) =>
        /\ \/ LinesOf(call.text, "glucose_monitoring") = 3
           \/ LinesOf(call.text, "pressure_monitoring") = 3
        /\ \E i \in DOMAIN call.text :
              call.text[i].section = "urgent_contact" /\ call.text[i].value = 2
        /\ \E i \in DOMAIN call.text :
              call.text[i].section = "followup" /\ call.text[i].value = 3

\* A snapshot that is CRITICAL by glucose alone, just above 300 mg/dL, assembled from the
\* rule engine's classification: only the glucose block can be the 3-line one.
C30_Witness ==
    /\ Assembled
    /\ calculate_risk_level(call.patient_data) = CRITICAL
    /\ call.classification.risk_level = CRITICAL
    /\ call.classification.is_outlier = is_outlier(CRITICAL)
    /\ call.patient_data.nivel_glicose > MgDl(300)
    /\ call.patient_data.pressao_sistolica <= 140
    /\ call.patient_data.pressao_diastolica <= 90
    /\ LinesOf(call.text, "glucose_monitoring") = 3
    /\ LinesOf(call.text, "pressure_monitoring") = 0

=============================================================================
